---- MODULE Spec2Model ----
(***************************************************************************)
(* Model of src/models/Main.py: the layered fake-news decision engine.     *)
(*                                                                         *)
(* Text is a sequence of one-character strings.  Percentages that the code *)
(* holds as floats are exact rationals [n |-> .., d |-> ..] (value n/d, in *)
(* percent); a value rounded to 2 decimals is an integer number of         *)
(* hundredths of a percent, a value rounded to 4 decimals an integer       *)
(* number of ten-thousandths.                                              *)
(***************************************************************************)
EXTENDS Integers, Sequences, FiniteSets, TLC

(***************************************************************************)
(* Characters and the character classes of Python's re module.             *)
(***************************************************************************)
LowerSeq ==
    << "a", "b", "c", "d", "e", "f", "g", "h", "i", "j", "k", "l", "m",
       "n", "o", "p", "q", "r", "s", "t", "u", "v", "w", "x", "y", "z" >>

UpperSeq ==
    << "A", "B", "C", "D", "E", "F", "G", "H", "I", "J", "K", "L", "M",
       "N", "O", "P", "Q", "R", "S", "T", "U", "V", "W", "X", "Y", "Z" >>

Range(f) == { f[i] : i \in DOMAIN f }

LowerLetters == Range(LowerSeq)
UpperLetters == Range(UpperSeq)
DigitChars == { "0", "1", "2", "3", "4", "5", "6", "7", "8", "9" }
SpaceChars == { " ", "\t", "\n" }

\* A letter outside ASCII ("e" with an acute accent): \w matches it,
\* [a-zA-Z] does not.
EAcute == "e'"

IsSpace(c) == c \in SpaceChars
IsDigit(c) == c \in DigitChars
IsAsciiLetter(c) == c \in LowerLetters \cup UpperLetters
IsWord(c) == IsAsciiLetter(c) \/ IsDigit(c) \/ c = "_" \/ c = EAcute

\* str.lower() on one character.
LowerChar(c) ==
    IF c \in UpperLetters
    THEN LowerSeq[CHOOSE i \in DOMAIN UpperSeq : UpperSeq[i] = c]
    ELSE c

\* text.lower()
Lower(s) == [i \in DOMAIN s |-> LowerChar(s[i])]

(***************************************************************************)
(* Regular-expression matching.  Each XxxLen(s, i) is the length of the    *)
(* match of one pattern starting at position i of s, 0 when there is none  *)
(* (none of the patterns matches the empty string).                        *)
(***************************************************************************)
StartsWith(s, i, lit) ==
    /\ i + Len(lit) - 1 <= Len(s)
    /\ \A k \in 1..Len(lit) : s[i + k - 1] = lit[k]

\* Last index of the run of characters satisfying the class that starts at i
\* (i - 1 when s[i] is not in the class).
RunEnd(s, i, InClass(_)) ==
    CHOOSE j \in (i - 1)..Len(s) :
        /\ \A k \in i..j : InClass(s[k])
        /\ (j = Len(s) \/ ~InClass(s[j + 1]))

NonSpace(c) == ~IsSpace(c)

IsWordAt(s, i) == i >= 1 /\ i <= Len(s) /\ IsWord(s[i])

\* \b between positions i - 1 and i.
WordBoundary(s, i) == IsWordAt(s, i - 1) # IsWordAt(s, i)

LitHttp == << "h", "t", "t", "p" >>
LitWww == << "w", "w", "w" >>
LitDotCom == << ".", "c", "o", "m" >>
LitRss == << "r", "s", "s" >>
LitTwoDotZero == << "2", ".", "0" >>
LitComments == << "c", "o", "m", "m", "e", "n", "t", "s" >>
LitPinging == << "p", "i", "n", "g", "i", "n", "g" >>
LitFiledUnder == << "f", "i", "l", "e", "d", " ", "u", "n", "d", "e", "r" >>
LitRead == << "r", "e", "a", "d" >>
LitFile == << "f", "i", "l", "e" >>
LitLink == << "l", "i", "n", "k" >>

\* lit\S+ (http\S+, www\S+)
PrefixRunLen(s, i, lit) ==
    IF StartsWith(s, i, lit) /\ i + Len(lit) <= Len(s) /\ NonSpace(s[i + Len(lit)])
    THEN RunEnd(s, i, NonSpace) - i + 1
    ELSE 0

\* \S+\.com\S+
DotComLen(s, i) ==
    IF i <= Len(s) /\ NonSpace(s[i])
    THEN LET e == RunEnd(s, i, NonSpace)
         IN  IF \E j \in (i + 1)..(e - Len(LitDotCom)) : StartsWith(s, j, LitDotCom)
             THEN e - i + 1
             ELSE 0
    ELSE 0

\* rss\s*2\.0
RssLen(s, i) ==
    IF StartsWith(s, i, LitRss)
    THEN LET j == RunEnd(s, i + Len(LitRss), IsSpace) + 1
         IN  IF StartsWith(s, j, LitTwoDotZero)
             THEN j + Len(LitTwoDotZero) - i
             ELSE 0
    ELSE 0

\* \blit\b (\bcomments\b, \bpinging\b)
WholeWordLen(s, i, lit) ==
    IF StartsWith(s, i, lit) /\ WordBoundary(s, i) /\ WordBoundary(s, i + Len(lit))
    THEN Len(lit)
    ELSE 0

\* filed under\b
FiledUnderLen(s, i) ==
    IF StartsWith(s, i, LitFiledUnder) /\ WordBoundary(s, i + Len(LitFiledUnder))
    THEN Len(LitFiledUnder)
    ELSE 0

\* The first alternative that matches at i, in the order the pattern lists
\* them.
FirstNonZero(lens) ==
    IF \E k \in DOMAIN lens : lens[k] > 0
    THEN lens[CHOOSE k \in DOMAIN lens :
                 lens[k] > 0 /\ \A m \in 1..(k - 1) : lens[m] = 0]
    ELSE 0

\* http\S+|www\S+|\S+\.com\S+|rss\s*2\.0|\bcomments\b|\bpinging\b|filed under\b
BoilerplateLen(s, i) ==
    FirstNonZero(<< PrefixRunLen(s, i, LitHttp),
                    PrefixRunLen(s, i, LitWww),
                    DotComLen(s, i),
                    RssLen(s, i),
                    WholeWordLen(s, i, LitComments),
                    WholeWordLen(s, i, LitPinging),
                    FiledUnderLen(s, i) >>)

\* \b\d+\s*(read|file|link)\S*
NumberedLinkLen(s, i) ==
    IF i <= Len(s) /\ IsDigit(s[i]) /\ WordBoundary(s, i)
    THEN LET j == RunEnd(s, RunEnd(s, i, IsDigit) + 1, IsSpace) + 1
             w == FirstNonZero(<< IF StartsWith(s, j, LitRead) THEN Len(LitRead) ELSE 0,
                                  IF StartsWith(s, j, LitFile) THEN Len(LitFile) ELSE 0,
                                  IF StartsWith(s, j, LitLink) THEN Len(LitLink) ELSE 0 >>)
         IN  IF w > 0 THEN RunEnd(s, j + w, NonSpace) - i + 1 ELSE 0
    ELSE 0

\* \d+ and \s+
ClassRunLen(s, i, InClass(_)) == RunEnd(s, i, InClass) - i + 1
DigitRunLen(s, i) == ClassRunLen(s, i, IsDigit)
SpaceRunLen(s, i) == ClassRunLen(s, i, IsSpace)

\* [^\w\s] and [^a-zA-Z\s]
PunctLen(s, i) == IF ~IsWord(s[i]) /\ ~IsSpace(s[i]) THEN 1 ELSE 0
NonLetterLen(s, i) == IF ~IsAsciiLetter(s[i]) /\ ~IsSpace(s[i]) THEN 1 ELSE 0

\* re.sub(pattern, ' ', s): the leftmost non-overlapping matches, scanning
\* from position i, each replaced by one space.
RECURSIVE SubFrom(_, _, _)
SubFrom(MatchLen(_, _), s, i) ==
    IF i > Len(s) THEN << >>
    ELSE LET m == MatchLen(s, i)
         IN  IF m > 0
             THEN << " " >> \o SubFrom(MatchLen, s, i + m)
             ELSE << s[i] >> \o SubFrom(MatchLen, s, i + 1)

ReSub(MatchLen(_, _), s) == SubFrom(MatchLen, s, 1)

\* str.strip()
Strip(s) ==
    IF \A i \in DOMAIN s : IsSpace(s[i]) THEN << >>
    ELSE LET a == CHOOSE i \in DOMAIN s : NonSpace(s[i]) /\ \A k \in 1..(i - 1) : IsSpace(s[k])
             b == CHOOSE i \in DOMAIN s : NonSpace(s[i]) /\ \A k \in (i + 1)..Len(s) : IsSpace(s[k])
         IN  SubSeq(s, a, b)

(***************************************************************************)
(* A raw input is None, a non-string value, or a string.                   *)
(***************************************************************************)
NoneInput == [kind |-> "none", chars |-> << >>]
IntInput == [kind |-> "int", chars |-> << >>]
StrInput(s) == [kind |-> "str", chars |-> s]

clean_text_harmonized(text) ==
    IF text.kind # "str" THEN << >>
    ELSE LET t1 == Lower(text.chars)
             t2 == ReSub(BoilerplateLen, t1)
             t3 == ReSub(NumberedLinkLen, t2)
             t4 == ReSub(PunctLen, t3)
             t5 == ReSub(DigitRunLen, t4)
             t6 == ReSub(NonLetterLen, t5)
             t7 == ReSub(SpaceRunLen, t6)
         IN  Strip(t7)

(***************************************************************************)
(* Python values.  A str built from text is [chars |-> <<...>>], a literal *)
(* str of the program [str |-> "..."], an int [int |-> i], None PyNone, a  *)
(* float rounded by round(_, 2) or round(_, 4) [num |-> i], a dict         *)
(* [dict |-> f], a list [list |-> s].                                      *)
(***************************************************************************)
PyNone == [none |-> TRUE]
PyChars(s) == [chars |-> s]
PyStr(s) == [str |-> s]
PyInt(i) == [int |-> i]
PyNum(i) == [num |-> i]
PyDict(f) == [dict |-> f]
PyList(s) == [list |-> s]

(***************************************************************************)
(* Exact arithmetic on the values the code holds as floats.                *)
(***************************************************************************)
RECURSIVE GCD(_, _)
GCD(a, b) == IF b = 0 THEN a ELSE GCD(b, a % b)

Abs(i) == IF i < 0 THEN -i ELSE i

\* n / d in lowest terms (d > 0)
Rat(n, d) == LET g == GCD(Abs(n), d) IN [n |-> n \div g, d |-> d \div g]
RInt(i) == [n |-> i, d |-> 1]
RAdd(a, b) ==
    LET g == GCD(a.d, b.d)
    IN  Rat(a.n * (b.d \div g) + b.n * (a.d \div g), (a.d \div g) * b.d)
RNeg(a) == [n |-> -a.n, d |-> a.d]
RSub(a, b) == RAdd(a, RNeg(b))
RMul(a, b) ==
    LET g1 == GCD(Abs(a.n), b.d)
        g2 == GCD(Abs(b.n), a.d)
    IN  Rat((a.n \div g1) * (b.n \div g2), (a.d \div g2) * (b.d \div g1))
\* a / b for b > 0
RDiv(a, b) == RMul(a, [n |-> b.d, d |-> b.n])
RGe(a, b) == a.n * b.d >= b.n * a.d
RGt(a, b) == a.n * b.d > b.n * a.d

\* The integer nearest to n / d (d > 0), a tie going to the even one.
RoundHalfEven(n, d) ==
    LET q == n \div d
        r == n % d
    IN  IF 2 * r < d THEN q
        ELSE IF 2 * r > d THEN q + 1
        ELSE IF q % 2 = 0 THEN q ELSE q + 1

\* round(x, 2), in hundredths
Round2(x) == RoundHalfEven(100 * x.n, x.d)

\* A coefficient is an integer number of millionths; round(c, 4) is in
\* ten-thousandths.
Round4(c) == RoundHalfEven(c, 100)

(***************************************************************************)
(* Thresholds and limits of layered_predict.                               *)
(***************************************************************************)
TrueThreshold == 60
BorderlineThreshold == 50
SearchDepth == 200
TopCount == 10

ErrorMessage == "Input text is empty or contains only non-alphanumeric characters."
NoProbabilityMessage == "No probability function available."
FeatureSupportMessage == "Feature support not available."
\* {"warning": "No probability function available."}
NoProbabilityMarker == [warning |-> NoProbabilityMessage]
NotApplicable == PyStr("N/A")

(***************************************************************************)
(* The vectorizer: a fitted vocabulary; transform counts the tokens of the *)
(* text that are vocabulary terms.                                         *)
(***************************************************************************)
TokenStarts(s) ==
    { a \in DOMAIN s : NonSpace(s[a]) /\ (a = 1 \/ IsSpace(s[a - 1])) }

TokenAt(s, a) == SubSeq(s, a, RunEnd(s, a, NonSpace))

\* set(text_clean.split())
SplitSet(s) == { TokenAt(s, a) : a \in TokenStarts(s) }

get_feature_names_out(vectorizer) == vectorizer.vocabulary_

transform(vectorizer, s) ==
    [t \in DOMAIN vectorizer.vocabulary_ |->
        Cardinality({ a \in TokenStarts(s) : TokenAt(s, a) = vectorizer.vocabulary_[t] })]

(***************************************************************************)
(* A classifier.  Its response to a vector is one positive weight per      *)
(* class, W[k] = base[k] + SUM_t gain[k][t] * x[t]: predict_proba is       *)
(* W[k] / SUM W, the margin of class k is ln W[k], and the scalar margin   *)
(* of a two-class model is ln (W[2] / W[1]).  Margins are held as their    *)
(* exponentials, so that np.exp of a margin is exact.                      *)
(***************************************************************************)
\* The sum of f[lo], ..., f[hi].
RECURSIVE SumRange(_, _, _)
SumRange(f, lo, hi) ==
    IF lo > hi THEN 0
    ELSE IF lo = hi THEN f[lo]
    ELSE LET mid == (lo + hi) \div 2
         IN  SumRange(f, lo, mid) + SumRange(f, mid + 1, hi)

SumSeq(f) == SumRange(f, 1, Len(f))

\* The same for exact values: e_x.sum()
RECURSIVE RSum(_, _, _)
RSum(f, lo, hi) ==
    IF lo > hi THEN RInt(0)
    ELSE IF lo = hi THEN f[lo]
    ELSE LET mid == (lo + hi) \div 2
         IN  RAdd(RSum(f, lo, mid), RSum(f, mid + 1, hi))

ClassWeights(model, vector) ==
    [k \in DOMAIN model.classes_ |->
        model.base[k]
        + SumSeq([t \in DOMAIN vector |-> model.gain[k][t] * vector[t]])]

\* model.predict_proba(vector)[0]
predict_proba(model, vector) ==
    LET w == ClassWeights(model, vector)
        total == SumSeq(w)
    IN  [k \in DOMAIN w |-> RDiv(RInt(w[k]), RInt(total))]

\* model.decision_function(vector)[0]: a 0-d value for a two-class model,
\* one margin per class otherwise.
decision_function(model, vector) ==
    LET w == ClassWeights(model, vector)
    IN  IF Len(model.classes_) = 2
        THEN [shape |-> 0, exp |-> RDiv(RInt(w[2]), RInt(w[1]))]
        ELSE [shape |-> 1, exp |-> [k \in DOMAIN w |-> RInt(w[k])]]

\* The last index of the largest value.
ArgMaxLast(v) ==
    CHOOSE i \in DOMAIN v :
        /\ \A j \in DOMAIN v : RGe(v[i], v[j])
        /\ \A j \in (i + 1)..Len(v) : RGt(v[i], v[j])

\* np.argmax: the first index of the largest value
ArgMax(v) ==
    CHOOSE i \in DOMAIN v :
        /\ \A j \in DOMAIN v : RGe(v[i], v[j])
        /\ \A j \in 1..(i - 1) : RGt(v[i], v[j])

\* model.predict(vector)[0] of a model with predict_proba: the class of the
\* highest probability.
predict(model, vector) == model.classes_[ArgMax(predict_proba(model, vector))]

\* cls.strip('"')
IsQuote(c) == c = "\""
NotQuote(c) == ~IsQuote(c)
StripQuotes(s) ==
    IF \A i \in DOMAIN s : IsQuote(s[i]) THEN << >>
    ELSE LET a == RunEnd(s, 1, IsQuote) + 1
             b == CHOOSE i \in DOMAIN s : NotQuote(s[i]) /\ \A k \in (i + 1)..Len(s) : IsQuote(s[k])
         IN  SubSeq(s, a, b)

\* The percentages cut to 2 decimals instead of rounded.
ConfidenceDictTruncated(classes, probs) ==
    [key \in { StripQuotes(classes[i]) : i \in DOMAIN classes } |->
        LET last == CHOOSE i \in DOMAIN classes :
                        /\ StripQuotes(classes[i]) = key
                        /\ \A j \in (i + 1)..Len(classes) : StripQuotes(classes[j]) # key
            p == RMul(probs[last], RInt(100))
        IN  (100 * p.n) \div p.d]

\* { cls.strip('"'): round(p*100, 2) for cls, p in zip(classes, probs) }: a
\* later pair replaces an earlier one with the same key.
ConfidenceDict(classes, probs) ==
    [key \in { StripQuotes(classes[i]) : i \in DOMAIN classes } |->
        LET last == CHOOSE i \in DOMAIN classes :
                        /\ StripQuotes(classes[i]) = key
                        /\ \A j \in (i + 1)..Len(classes) : StripQuotes(classes[j]) # key
        IN  Round2(RMul(probs[last], RInt(100)))]

\* list(model.classes_).index(label): 0 when the label is not in the list
\* (ValueError).
IndexOf(classes, label) ==
    IF \E i \in DOMAIN classes : PyChars(classes[i]) = label
    THEN CHOOSE i \in DOMAIN classes :
             PyChars(classes[i]) = label /\ \A j \in 1..(i - 1) : PyChars(classes[j]) # label
    ELSE 0

(***************************************************************************)
(* get_svc_confidence_fallback(model, vector) returns the tuple            *)
(* (prediction, C_True, C_Predicted, all_class_confidences), or raises.    *)
(***************************************************************************)
\* 1 / (1 + np.exp(-decision_score)) * 100
Sigmoid100(score) ==
    RMul(RDiv(RInt(1), RAdd(RInt(1), RDiv(RInt(1), score.exp))), RInt(100))

\* e_x = np.exp(scores - np.max(scores)); e_x / e_x.sum()
Softmax(scores) ==
    LET top == scores.exp[ArgMax(scores.exp)]
        e_x == [k \in DOMAIN scores.exp |-> RDiv(scores.exp[k], top)]
        total == RSum(e_x, 1, Len(e_x))
    IN  [k \in DOMAIN e_x |-> RDiv(e_x[k], total)]

\* C_Predicted without the complement for a negative prediction.
FallbackBinaryNoComplement(decision_scores) ==
    LET C_True == Sigmoid100(decision_scores)
        prediction == IF RGe(C_True, RInt(BorderlineThreshold)) THEN 1 ELSE 0
    IN  [raised |-> "", prediction |-> PyInt(prediction), C_True |-> C_True,
         C_Predicted |-> C_True, all_class_confidences |-> PyNone]

FallbackBinary(decision_scores) ==
    LET C_True == Sigmoid100(decision_scores)
        prediction == IF RGe(C_True, RInt(BorderlineThreshold)) THEN 1 ELSE 0
        C_Predicted == IF prediction = 1 THEN C_True ELSE RSub(RInt(100), C_True)
    IN  [raised |-> "", prediction |-> PyInt(prediction), C_True |-> C_True,
         C_Predicted |-> C_Predicted, all_class_confidences |-> PyNone]

FallbackMulticlass(model, decision_scores) ==
    LET predicted_index == ArgMax(decision_scores.exp)
        predicted_class == model.classes_[predicted_index]
        softmax_probs == Softmax(decision_scores)
        C_Predicted == RMul(softmax_probs[predicted_index], RInt(100))
    IN  [raised |-> "", prediction |-> PyChars(predicted_class), C_True |-> PyNone,
         C_Predicted |-> C_Predicted,
         all_class_confidences |-> PyDict(ConfidenceDict(model.classes_, softmax_probs))]

get_svc_confidence_fallback(model, vector) ==
    IF ~model.has_decision_function
    THEN [raised |-> "AttributeError", prediction |-> PyNone, C_True |-> PyNone,
          C_Predicted |-> PyNone, all_class_confidences |-> PyNone]
    ELSE LET decision_scores == decision_function(model, vector)
         IN  IF decision_scores.shape = 0
             THEN FallbackBinary(decision_scores)
             ELSE FallbackMulticlass(model, decision_scores)

(***************************************************************************)
(* Feature attribution (the body of "if hasattr(granular_model, 'coef_')").*)
(***************************************************************************)
\* np.argsort(coefs): the indices in ascending order of value, equal values
\* in index order.
ArgSort(coefs) ==
    LET n == Len(coefs)
        \* the place of index i in the sorted order
        place == SubSeq([i \in 1..n |->
                            Cardinality({ j \in 1..n :
                                \/ coefs[j] < coefs[i]
                                \/ (coefs[j] = coefs[i] /\ j < i) }) + 1], 1, n)
    IN  [p \in 1..n |-> CHOOSE i \in 1..n : place[i] = p]

\* s[-n:]
LastN(s, n) == IF Len(s) <= n THEN s ELSE SubSeq(s, Len(s) - n + 1, Len(s))
\* s[:n]
FirstN(s, n) == IF Len(s) <= n THEN s ELSE SubSeq(s, 1, n)
\* s[::-1]
Reverse(s) == [i \in DOMAIN s |-> s[Len(s) + 1 - i]]

\* The ranking without the search depth.
TopIdxUnbounded(coefs) == Reverse(ArgSort(coefs))

\* np.argsort(coefs)[-200:][::-1]
TopIdx(coefs) == Reverse(LastN(ArgSort(coefs), SearchDepth))

FeatureEntry(feature_names, coefs, i) == << feature_names[i], Round4(coefs[i]) >>

TopInputFeatures(feature_names, coefs, top_idx, input_words) ==
    LET present == SelectSeq(top_idx, LAMBDA i : feature_names[i] \in input_words)
    IN  FirstN([p \in DOMAIN present |-> FeatureEntry(feature_names, coefs, present[p])],
               TopCount)

TopGlobalFeatures(feature_names, coefs, top_idx) ==
    LET first == FirstN(top_idx, TopCount)
    IN  [p \in DOMAIN first |-> FeatureEntry(feature_names, coefs, first[p])]

(***************************************************************************)
(* State.  The four module globals, and one record of locals per call of   *)
(* layered_predict (the serving layer runs calls concurrently).  pc is the *)
(* position of the call; invoked lists the collaborators the call has      *)
(* used so far.                                                            *)
(***************************************************************************)
VARIABLES binary_model, binary_vectorizer, granular_model, granular_vectorizer, req

globals == << binary_model, binary_vectorizer, granular_model, granular_vectorizer >>
vars == << binary_model, binary_vectorizer, granular_model, granular_vectorizer, req >>

Unset == [unset |-> TRUE]

NewCall(text) ==
    [pc |-> "START", text |-> text, text_clean |-> Unset, C_True |-> Unset,
     bin_conf_predicted |-> Unset, C_True_rounded |-> Unset,
     bin_conf_predicted_rounded |-> Unset, bin_label_str |-> Unset,
     gran_label |-> Unset, gran_conf_top |-> Unset, gran_conf_all |-> Unset,
     top_input_features |-> Unset, top_global_features |-> Unset,
     result |-> Unset, raised |-> Unset, invoked |-> {}]

Raise(call, exception, line) ==
    [call EXCEPT !.pc = "RAISED", !.raised = [exception |-> exception, line |-> line]]

\* The emptiness test made on the posted text instead of the cleaned text.
NormalizeCallRawTest(call) ==
    LET text_clean == clean_text_harmonized(call.text)
    IN  IF call.text.chars = << >>
        THEN [call EXCEPT !.pc = "REJECTED", !.text_clean = text_clean,
                          !.result = [error |-> PyStr(ErrorMessage)]]
        ELSE [call EXCEPT !.pc = "NORMALIZED", !.text_clean = text_clean]

\* text_clean = clean_text_harmonized(text); if not text_clean: return {...}
NormalizeCall(call) ==
    LET text_clean == clean_text_harmonized(call.text)
    IN  IF text_clean = << >>
        THEN [call EXCEPT !.pc = "REJECTED", !.text_clean = text_clean,
                          !.result = [error |-> PyStr(ErrorMessage)]]
        ELSE [call EXCEPT !.pc = "NORMALIZED", !.text_clean = text_clean]

\* The binary stage: bin_vec, C_True and bin_conf_predicted, then the two
\* round(_, 2).
BinaryScoreCall(call, model, vectorizer) ==
    LET bin_vec == transform(vectorizer, call.text_clean)
        used == [call EXCEPT !.invoked = @ \cup {"binary_vectorizer", "binary_model"}]
        scored ==
            IF model.has_predict_proba
            THEN LET bin_probs == predict_proba(model, bin_vec)
                     C_True == RMul(bin_probs[2], RInt(100))
                     bin_prediction == IF RGe(C_True, RInt(BorderlineThreshold)) THEN 1 ELSE 0
                 IN  [raised |-> "", C_True |-> C_True,
                      C_Predicted |-> IF bin_prediction = 1 THEN C_True
                                      ELSE RSub(RInt(100), C_True)]
            ELSE get_svc_confidence_fallback(model, bin_vec)
    IN  IF scored.raised # "" THEN Raise(used, scored.raised, 42)
        ELSE IF scored.C_True = PyNone THEN Raise(used, "TypeError", 139)
        ELSE [used EXCEPT !.pc = "BINARY_SCORED",
                          !.C_True = scored.C_True,
                          !.bin_conf_predicted = scored.C_Predicted,
                          !.C_True_rounded = PyNum(Round2(scored.C_True)),
                          !.bin_conf_predicted_rounded = PyNum(Round2(scored.C_Predicted))]

\* The gate taken on the displayed (rounded) C_True instead of C_True.
ThresholdCallOnRounded(call) ==
    IF call.C_True_rounded.num >= 100 * TrueThreshold
    THEN [call EXCEPT !.pc = "TERMINATED_TRUE",
              !.result = [binary_prediction |-> PyStr("True"),
                          binary_confidence |-> call.bin_conf_predicted_rounded,
                          C_True_confidence |-> call.C_True_rounded,
                          granular_prediction |-> NotApplicable,
                          granular_confidence_top |-> NotApplicable,
                          granular_confidence_all |-> NotApplicable,
                          top_features_input |-> NotApplicable,
                          top_features_overall |-> NotApplicable]]
    ELSE [call EXCEPT !.pc = "ESCALATED",
              !.bin_label_str = IF RGe(call.C_True, RInt(BorderlineThreshold))
                                THEN PyStr("Unknown / Borderline")
                                ELSE PyStr("Fake")]

\* The display label taken with C_True > 50.0 instead of >= 50.0.
ThresholdCallExclusiveBorder(call) ==
    IF RGe(call.C_True, RInt(TrueThreshold))
    THEN [call EXCEPT !.pc = "TERMINATED_TRUE",
              !.result = [binary_prediction |-> PyStr("True"),
                          binary_confidence |-> call.bin_conf_predicted_rounded,
                          C_True_confidence |-> call.C_True_rounded,
                          granular_prediction |-> NotApplicable,
                          granular_confidence_top |-> NotApplicable,
                          granular_confidence_all |-> NotApplicable,
                          top_features_input |-> NotApplicable,
                          top_features_overall |-> NotApplicable]]
    ELSE [call EXCEPT !.pc = "ESCALATED",
              !.bin_label_str = IF RGt(call.C_True, RInt(BorderlineThreshold))
                                THEN PyStr("Unknown / Borderline")
                                ELSE PyStr("Fake")]

\* if C_True >= 60.0: return {...} else: bin_label_str = ...
ThresholdCall(call) ==
    IF RGe(call.C_True, RInt(TrueThreshold))
    THEN [call EXCEPT !.pc = "TERMINATED_TRUE",
              !.result = [binary_prediction |-> PyStr("True"),
                          binary_confidence |-> call.bin_conf_predicted_rounded,
                          C_True_confidence |-> call.C_True_rounded,
                          granular_prediction |-> NotApplicable,
                          granular_confidence_top |-> NotApplicable,
                          granular_confidence_all |-> NotApplicable,
                          top_features_input |-> NotApplicable,
                          top_features_overall |-> NotApplicable]]
    ELSE [call EXCEPT !.pc = "ESCALATED",
              !.bin_label_str = IF RGe(call.C_True, RInt(BorderlineThreshold))
                                THEN PyStr("Unknown / Borderline")
                                ELSE PyStr("Fake")]

\* The granular stage: gran_label, gran_conf_top and gran_conf_all.
GranularScoreCall(call, model, vectorizer) ==
    LET gran_vec == transform(vectorizer, call.text_clean)
        used == [call EXCEPT !.invoked = @ \cup {"granular_vectorizer", "granular_model"},
                             !.gran_conf_all = NoProbabilityMarker]
    IN  IF model.has_predict_proba
        THEN LET gran_label == predict(model, gran_vec)
                 gran_probs == predict_proba(model, gran_vec)
                 predicted_index == IndexOf(model.classes_, PyChars(gran_label))
             IN  [used EXCEPT !.pc = "GRANULAR_SCORED",
                      !.gran_label = PyChars(gran_label),
                      !.gran_conf_top = RMul(gran_probs[predicted_index], RInt(100)),
                      !.gran_conf_all = PyDict(ConfidenceDict(model.classes_, gran_probs))]
        ELSE LET fallback == get_svc_confidence_fallback(model, gran_vec)
             IN  IF fallback.raised # "" THEN Raise(used, fallback.raised, 42)
                 ELSE [used EXCEPT !.pc = "GRANULAR_SCORED",
                           !.gran_label = fallback.prediction,
                           !.gran_conf_top = fallback.C_Predicted,
                           !.gran_conf_all = fallback.all_class_confidences]

\* Explainability: top_input_features and top_global_features.
AttributeCall(call, model, vectorizer) ==
    LET marked == [call EXCEPT !.pc = "ATTRIBUTED",
                       !.top_input_features = PyStr(FeatureSupportMessage),
                       !.top_global_features = PyStr(FeatureSupportMessage)]
    IN  IF ~model.has_coef_ THEN marked
        ELSE LET class_idx == IndexOf(model.classes_, call.gran_label)
             IN  IF class_idx = 0 THEN Raise(marked, "ValueError", 184)
                 ELSE IF class_idx > Len(model.coef_) THEN Raise(marked, "IndexError", 185)
                 ELSE LET coefs == model.coef_[class_idx]
                          feature_names == get_feature_names_out(vectorizer)
                          top_idx == TopIdx(coefs)
                          input_words == SplitSet(call.text_clean)
                      IN  [marked EXCEPT
                              !.top_input_features =
                                  PyList(TopInputFeatures(feature_names, coefs, top_idx, input_words)),
                              !.top_global_features =
                                  PyList(TopGlobalFeatures(feature_names, coefs, top_idx))]

\* return {...} of the escalated branch
AssembleCall(call) ==
    IF "chars" \notin DOMAIN call.gran_label THEN Raise(call, "AttributeError", 202)
    ELSE [call EXCEPT !.pc = "TERMINATED_FINAL",
              !.result = [binary_prediction |-> call.bin_label_str,
                          binary_confidence |-> call.bin_conf_predicted_rounded,
                          C_True_confidence |-> call.C_True_rounded,
                          granular_prediction |-> PyChars(StripQuotes(call.gran_label.chars)),
                          granular_confidence_top |-> PyNum(Round2(call.gran_conf_top)),
                          granular_confidence_all |-> call.gran_conf_all,
                          top_features_input |-> call.top_input_features,
                          top_features_overall |-> call.top_global_features]]

\* layered_predict(text) run from its first line to its return (or raise).
layered_predict(text, bmodel, bvectorizer, gmodel, gvectorizer) ==
    LET c0 == NormalizeCall(NewCall(text))
        c1 == IF c0.pc = "NORMALIZED" THEN BinaryScoreCall(c0, bmodel, bvectorizer) ELSE c0
        c2 == IF c1.pc = "BINARY_SCORED" THEN ThresholdCall(c1) ELSE c1
        c3 == IF c2.pc = "ESCALATED" THEN GranularScoreCall(c2, gmodel, gvectorizer) ELSE c2
        c4 == IF c3.pc = "GRANULAR_SCORED" THEN AttributeCall(c3, gmodel, gvectorizer) ELSE c3
    IN  IF c4.pc = "ATTRIBUTED" THEN AssembleCall(c4) ELSE c4

(***************************************************************************)
(* Bounds of the model.                                                    *)
(***************************************************************************)
\* Calls in flight at once.
MaxRequests == 2
\* Pieces a posted text is put together from.
MaxChunks == 2
\* Classes of the largest granular model.
MaxClasses == 31
\* Terms of the small vocabulary, and terms of the large vocabulary beyond
\* the search depth of the attribution.
SmallVocabulary == 3
VocabularyBeyondDepth == 3

(***************************************************************************)
(* The artifacts loaded at start-up: a vocabulary of two-letter terms      *)
(* "aa", "ab", ... and classifiers over it.                                *)
(***************************************************************************)
Term(i) == << LowerSeq[((i - 1) \div 26) + 1], LowerSeq[((i - 1) % 26) + 1] >>

\* Class labels; every second one carries the quotes that strip('"') removes.
Label(k) == IF k % 2 = 0 THEN << "\"" >> \o Term(k) \o << "\"" >> ELSE Term(k)

Vectorizer(v) == [vocabulary_ |-> [i \in 1..v |-> Term(i)]]

\* One row of coefficients per class, a single row for a two-class model.
CoefRows(k, v, pattern) ==
    [c \in 1..(IF k = 2 THEN 1 ELSE k) |->
        [t \in 1..v |->
            pattern.step * (((t * pattern.stride + c * pattern.shift) % pattern.modulus)
                            - pattern.offset)]]

Classifier(base, has_predict_proba, has_decision_function, has_coef_, v, pattern) ==
    [classes_ |-> [k \in DOMAIN base |-> Label(k)],
     has_predict_proba |-> has_predict_proba,
     has_decision_function |-> has_decision_function,
     has_coef_ |-> has_coef_,
     base |-> base,
     gain |-> [k \in DOMAIN base |-> [t \in 1..v |-> (k + t) % 3]],
     coef_ |-> IF has_coef_ THEN CoefRows(Len(base), v, pattern) ELSE << >>]

DistinctCoefs == [step |-> 12345, stride |-> 1, shift |-> 2, modulus |-> 211, offset |-> 100]
ScatteredCoefs == [step |-> 12345, stride |-> 7, shift |-> 5, modulus |-> 211, offset |-> 100]
TiedCoefs == [step |-> 12345, stride |-> 3, shift |-> 1, modulus |-> 5, offset |-> 2]
CoefPatterns == { DistinctCoefs, ScatteredCoefs, TiedCoefs }

\* Base weights << W[1], W[2] >> of the binary model: C_true is
\* 100 * W[2] / (W[1] + W[2]) on a text without vocabulary terms.
BinaryBases ==
    { << 3, 17 >>, << 2, 3 >>, << 40001, 59999 >>, << 4001, 5999 >>, << 9, 11 >>,
      << 1, 1 >>, << 50001, 49999 >>, << 3, 2 >> }

BinaryModel(base, has_predict_proba, v) ==
    Classifier(base, has_predict_proba, TRUE, TRUE, v, DistinctCoefs)

UniformBase(k) == [c \in 1..k |-> 1]
RampBase(k) == [c \in 1..k |-> c]
TiedBase(k) == [c \in 1..k |-> IF c <= 2 THEN 5 ELSE 1]
GranularBases(k) == { UniformBase(k), RampBase(k), TiedBase(k) }

DefaultBinary(v) == BinaryModel(<< 3, 2 >>, TRUE, v)
DefaultGranular(v) == Classifier(RampBase(3), FALSE, TRUE, TRUE, v, DistinctCoefs)

(***************************************************************************)
(* The texts clients post.                                                 *)
(***************************************************************************)
RECURSIVE JoinTerms(_, _)
JoinTerms(a, b) ==
    IF a > b THEN << >>
    ELSE IF a = b THEN Term(a)
    ELSE Term(a) \o << " " >> \o JoinTerms(a + 1, b)

TextPlain == StrInput(<< "N", "e", "w", "s", "!" >>)
TextTerms == StrInput(<< "A", "b", " ", "a", "C", "." >>)
TextPunctuation == StrInput(<< "4", "2", " ", "!", "?" >>)

Chunks ==
    << LitHttp, LitWww, << "a", ".", "c", "o", "m" >>, << "x" >>, << "B" >>, << " " >>,
       << "7" >>, << "7", " " >>, << "!" >>, << "_" >>, LitRead, LitRss, LitTwoDotZero,
       LitComments, Term(2), << EAcute >> >>

RECURSIVE Flatten(_)
Flatten(ss) == IF ss = << >> THEN << >> ELSE Head(ss) \o Flatten(Tail(ss))

ChunkTexts ==
    { StrInput(Flatten([i \in DOMAIN c |-> Chunks[c[i]]])) :
        c \in UNION { [1..n -> DOMAIN Chunks] : n \in 0..MaxChunks } }

LargeVocabulary == SearchDepth + VocabularyBeyondDepth

LongTexts ==
    { StrInput(JoinTerms(a, a + n)) :
        a \in { 1, 97, LargeVocabulary - TopCount - 3 }, n \in { 0, TopCount + 1, TopCount + 3 } }

Scenario(binary, granular, v, texts) ==
    [binary |-> binary, granular |-> granular, vocabulary |-> v, texts |-> texts]

\* Every binary model, one text.
GateScenarios ==
    { Scenario(BinaryModel(base \o extra, proba, SmallVocabulary),
               DefaultGranular(SmallVocabulary), SmallVocabulary, << text >>) :
        base \in BinaryBases, extra \in { << >>, << 1 >> }, proba \in BOOLEAN,
        text \in { TextPlain, TextTerms } }

\* Every capability of the granular model, two to four classes.
GranularScenarios ==
    { Scenario(BinaryModel(bbase, TRUE, SmallVocabulary),
               Classifier(gbase, caps[1], caps[2], coef, SmallVocabulary, TiedCoefs),
               SmallVocabulary, << text >>) :
        bbase \in { << 3, 2 >>, << 9, 11 >> },
        gbase \in UNION { GranularBases(k) : k \in 2..4 },
        caps \in BOOLEAN \X BOOLEAN, coef \in BOOLEAN,
        text \in { TextPlain, TextTerms } }

\* Every capability of both models together.
CapabilityScenarios ==
    { Scenario(BinaryModel(<< 3, 2 >> \o extra, bproba, SmallVocabulary),
               Classifier(RampBase(k), caps[1], caps[2], coef, SmallVocabulary, DistinctCoefs),
               SmallVocabulary, << TextTerms >>) :
        extra \in { << >>, << 1 >> }, bproba \in BOOLEAN, k \in 2..3,
        caps \in BOOLEAN \X BOOLEAN, coef \in BOOLEAN }

\* Calls in flight together.
ConcurrentScenarios ==
    { Scenario(BinaryModel(bbase, bproba, SmallVocabulary),
               Classifier(RampBase(3), ~bproba, TRUE, TRUE, SmallVocabulary, TiedCoefs),
               SmallVocabulary, texts) :
        bbase \in { << 3, 2 >>, << 2, 3 >> }, bproba \in BOOLEAN,
        texts \in [1..MaxRequests -> { TextPlain, TextTerms, TextPunctuation }] }

\* Every posted value, the default models.
NormalizerScenarios ==
    { Scenario(DefaultBinary(SmallVocabulary), DefaultGranular(SmallVocabulary),
               SmallVocabulary, << text >>) :
        text \in ChunkTexts \cup { NoneInput, IntInput } }

\* A vocabulary larger than the search depth, texts of many terms.
AttributionScenarios ==
    { Scenario(DefaultBinary(LargeVocabulary),
               Classifier(RampBase(3), proba, TRUE, TRUE, LargeVocabulary, pattern),
               LargeVocabulary, << text >>) :
        proba \in BOOLEAN, pattern \in CoefPatterns, text \in LongTexts }

\* Granular models of many classes.
DistributionScenarios ==
    { Scenario(DefaultBinary(SmallVocabulary),
               Classifier(gbase, proba, TRUE, TRUE, SmallVocabulary, TiedCoefs),
               SmallVocabulary, << text >>) :
        gbase \in UNION { { UniformBase(k), RampBase(k) } : k \in 5..MaxClasses },
        proba \in BOOLEAN, text \in { TextPlain, TextTerms } }

Scenarios ==
    GateScenarios \cup GranularScenarios \cup CapabilityScenarios \cup ConcurrentScenarios
    \cup NormalizerScenarios \cup AttributionScenarios \cup DistributionScenarios

\* The state once the module is loaded: the granular vectorizer is the
\* binary one, and the calls received have not started.
Init ==
    \E sc \in Scenarios :
        /\ binary_model = sc.binary
        /\ binary_vectorizer = Vectorizer(sc.vocabulary)
        /\ granular_model = sc.granular
        /\ granular_vectorizer = Vectorizer(sc.vocabulary)
        /\ req = [i \in DOMAIN sc.texts |-> NewCall(sc.texts[i])]

(***************************************************************************)
(* Actions: one per stage of layered_predict, for any call in progress.    *)
(***************************************************************************)
Step(r, from, next) ==
    /\ req[r].pc = from
    /\ req' = [req EXCEPT ![r] = next]
    /\ UNCHANGED globals

Normalize(r) == Step(r, "START", NormalizeCall(req[r]))

BinaryScore(r) ==
    Step(r, "NORMALIZED", BinaryScoreCall(req[r], binary_model, binary_vectorizer))

Threshold(r) == Step(r, "BINARY_SCORED", ThresholdCall(req[r]))

\* The granular stage refitting the shared vectorizer on the text of the call
\* (fit_transform instead of transform).
GranularScoreRefit(r) ==
    /\ req[r].pc = "ESCALATED"
    /\ req' = [req EXCEPT ![r] = GranularScoreCall(req[r], granular_model, granular_vectorizer)]
    /\ granular_vectorizer' =
           [vocabulary_ |-> [t \in DOMAIN granular_vectorizer.vocabulary_ |->
                                IF t = 1 THEN TokenAt(req[r].text_clean, 1)
                                ELSE granular_vectorizer.vocabulary_[t]]]
    /\ binary_vectorizer' = granular_vectorizer'
    /\ UNCHANGED << binary_model, granular_model >>

GranularScore(r) ==
    Step(r, "ESCALATED", GranularScoreCall(req[r], granular_model, granular_vectorizer))

Attribute(r) ==
    Step(r, "GRANULAR_SCORED", AttributeCall(req[r], granular_model, granular_vectorizer))

Assemble(r) == Step(r, "ATTRIBUTED", AssembleCall(req[r]))

Next ==
    \/ \E r \in DOMAIN req : Normalize(r)
    \/ \E r \in DOMAIN req : BinaryScore(r)
    \/ \E r \in DOMAIN req : Threshold(r)
    \/ \E r \in DOMAIN req : GranularScore(r)
    \/ \E r \in DOMAIN req : Attribute(r)
    \/ \E r \in DOMAIN req : Assemble(r)

Spec == Init /\ [][Next]_vars

(***************************************************************************)
(* Properties.                                                             *)
(***************************************************************************)
ResultKeys ==
    { "binary_prediction", "binary_confidence", "C_True_confidence", "granular_prediction",
      "granular_confidence_top", "granular_confidence_all", "top_features_input",
      "top_features_overall" }

GranularKeys ==
    { "granular_prediction", "granular_confidence_top", "granular_confidence_all",
      "top_features_input", "top_features_overall" }

ErrorShape(result) == result = [error |-> PyStr(ErrorMessage)]

TrueShape(result) ==
    /\ DOMAIN result = ResultKeys
    /\ result.binary_prediction = PyStr("True")
    /\ \A key \in GranularKeys : result[key] = NotApplicable
    /\ DOMAIN result.binary_confidence = { "num" }
    /\ DOMAIN result.C_True_confidence = { "num" }

FullShape(result) ==
    /\ DOMAIN result = ResultKeys
    /\ result.binary_prediction \in { PyStr("Fake"), PyStr("Unknown / Borderline") }
    /\ DOMAIN result.binary_confidence = { "num" }
    /\ DOMAIN result.C_True_confidence = { "num" }
    /\ DOMAIN result.granular_prediction = { "chars" }
    /\ DOMAIN result.granular_confidence_top = { "num" }
    /\ \/ DOMAIN result.granular_confidence_all = { "dict" }
       \/ result.granular_confidence_all = NoProbabilityMarker
    /\ \A key \in { "top_features_input", "top_features_overall" } :
          \/ result[key] = PyStr(FeatureSupportMessage)
          \/ DOMAIN result[key] = { "list" }

\* The binary stage of the call has produced C_True, and the gate has acted.
Gated(call) ==
    /\ call.C_True # Unset
    /\ call.pc # "BINARY_SCORED"

Escalated(call) == call.bin_label_str # Unset

GranularConsulted(call) ==
    \/ call.invoked \cap { "granular_model", "granular_vectorizer" } # {}
    \/ call.gran_label # Unset
    \/ call.top_input_features # Unset

\* C1: the gate is decided on the unrounded C_true: once the gate has acted,
\* the call has ended with the True-terminal result, without consulting the
\* granular model or the attribution, if and only if C_true >= 60.0, and it has
\* escalated if and only if C_true < 60.0.
C1_GateOnUnroundedCTrue ==
    \A r \in DOMAIN req :
        LET call == req[r]
            above == RGe(call.C_True, RInt(TrueThreshold))
        IN  Gated(call) =>
                /\ above <=> /\ call.pc = "TERMINATED_TRUE"
                             /\ TrueShape(call.result)
                             /\ ~GranularConsulted(call)
                /\ ~above <=> Escalated(call)
                /\ ~above <=> call.pc \in { "ESCALATED", "GRANULAR_SCORED", "ATTRIBUTED",
                                            "TERMINATED_FINAL", "RAISED" }

\* A call with C_true below 60 that is displayed as 60.0 has escalated and
\* returned the full result.
C1_Witness ==
    \E r \in DOMAIN req :
        /\ req[r].pc = "TERMINATED_FINAL"
        /\ ~RGe(req[r].C_True, RInt(TrueThreshold))
        /\ req[r].result.C_True_confidence = PyNum(100 * TrueThreshold)

\* C2: a call whose cleaned text is empty returns exactly the error payload
\* and invokes no vectorizer and no model; the error payload is returned only
\* for an empty cleaned text.
C2_EmptyTextRejected ==
    \A r \in DOMAIN req :
        LET call == req[r]
        IN  /\ call.pc # "START" =>
                /\ call.text_clean = clean_text_harmonized(call.text)
                /\ call.text_clean = << >> <=> call.pc = "REJECTED"
                /\ call.text_clean = << >> <=> ErrorShape(call.result)
                /\ call.text_clean = << >> => call.invoked = {}
            /\ call.text.kind # "str" /\ call.pc # "START" => call.pc = "REJECTED"
            /\ "error" \in DOMAIN call.result => call.text_clean = << >>
            /\ call.pc \notin { "START", "REJECTED" } =>
                /\ \E i \in DOMAIN call.text_clean : call.text_clean[i] \in LowerLetters
                /\ \A i \in DOMAIN call.text_clean :
                       call.text_clean[i] \in LowerLetters \cup { " " }

\* A posted string that is not empty and cleans to the empty text is rejected.
C2_Witness ==
    \E r \in DOMAIN req :
        /\ req[r].pc = "REJECTED"
        /\ req[r].text.kind = "str"
        /\ req[r].text.chars # << >>
        /\ ErrorShape(req[r].result)

\* C3: an escalated call is labelled "Unknown / Borderline" if and only if
\* C_true >= 50.0 and "Fake" if and only if C_true < 50.0; in both cases the
\* step after the escalation is the granular stage, and the full result
\* carries that label (never "True") with granular_prediction and
\* granular_confidence_top populated.
C3_EscalatedLabel ==
    \A r \in DOMAIN req :
        LET call == req[r]
            border == RGe(call.C_True, RInt(BorderlineThreshold))
        IN  /\ Escalated(call) =>
                /\ ~RGe(call.C_True, RInt(TrueThreshold))
                /\ call.bin_label_str = PyStr("Unknown / Borderline") <=> border
                /\ call.bin_label_str = PyStr("Fake") <=> ~border
                /\ call.pc # "ESCALATED" => "granular_model" \in call.invoked
            /\ call.pc = "TERMINATED_FINAL" =>
                /\ Escalated(call)
                /\ FullShape(call.result)
                /\ call.result.binary_prediction = call.bin_label_str
                /\ call.result.granular_prediction # NotApplicable
                /\ call.result.granular_confidence_top # NotApplicable
            /\ "binary_prediction" \in DOMAIN call.result /\ ~TrueShape(call.result)
                   => call.result.binary_prediction # PyStr("True")

\* A call with 50 <= C_true < 60 has returned the full result.
C3_Witness ==
    \E r \in DOMAIN req :
        /\ req[r].pc = "TERMINATED_FINAL"
        /\ RGe(req[r].C_True, RInt(BorderlineThreshold))
        /\ req[r].result.binary_prediction = PyStr("Unknown / Borderline")
        /\ DOMAIN req[r].result.granular_confidence_top = { "num" }

\* C4: on the calibrated and on the fallback path the predicted-class
\* confidence is C_true when C_true >= 50.0 and 100 - C_true otherwise;
\* binary_confidence is that value rounded, equals C_True_confidence in
\* a True-terminal result, and is never below 50 in a result.
C4_ComplementInvariant ==
    \A r \in DOMAIN req :
        LET call == req[r]
            expected == IF RGe(call.C_True, RInt(BorderlineThreshold))
                        THEN call.C_True
                        ELSE RSub(RInt(100), call.C_True)
        IN  /\ call.C_True # Unset =>
                /\ call.bin_conf_predicted = expected
                /\ call.bin_conf_predicted_rounded = PyNum(Round2(expected))
                /\ call.C_True_rounded = PyNum(Round2(call.C_True))
            /\ "binary_confidence" \in DOMAIN call.result =>
                /\ call.result.binary_confidence = call.bin_conf_predicted_rounded
                /\ call.result.C_True_confidence = call.C_True_rounded
                /\ call.result.binary_confidence.num >= 100 * BorderlineThreshold
                /\ TrueShape(call.result) =>
                       call.result.binary_confidence = call.result.C_True_confidence

\* A call scored on the fallback path with C_true below 50 has returned a
\* result whose binary_confidence is the complement.
C4_Witness ==
    \E r \in DOMAIN req :
        /\ ~binary_model.has_predict_proba
        /\ req[r].pc = "TERMINATED_FINAL"
        /\ ~RGe(req[r].C_True, RInt(BorderlineThreshold))
        /\ req[r].result.binary_confidence.num + req[r].result.C_True_confidence.num = 10000
        /\ req[r].result.binary_confidence # req[r].result.C_True_confidence

\* C5: every call ends in exactly one of three outcomes, the validation-error
\* payload, the True-terminal payload or the full payload, for every
\* combination of model capabilities; no call ends by raising.
C5_NoPartialResults ==
    \A r \in DOMAIN req :
        LET call == req[r]
        IN  /\ call.pc \in { "START", "NORMALIZED", "BINARY_SCORED", "ESCALATED",
                             "GRANULAR_SCORED", "ATTRIBUTED", "REJECTED",
                             "TERMINATED_TRUE", "TERMINATED_FINAL" }
            /\ call.pc = "REJECTED" => ErrorShape(call.result)
            /\ call.pc = "TERMINATED_TRUE" => TrueShape(call.result)
            /\ call.pc = "TERMINATED_FINAL" => FullShape(call.result)

\* The granular model gives no per-class distribution: it has no
\* predict_proba, and no decision_function or only a scalar margin.
NoProbabilityMechanism(model) ==
    /\ ~model.has_predict_proba
    /\ ~model.has_decision_function \/ Len(model.classes_) = 2

PastGranularStage(call) ==
    /\ Escalated(call)
    /\ call.pc # "ESCALATED"

\* C6: an escalated call on a granular model without a probability mechanism
\* ends with the full result whose granular_confidence_all is the marker
\* {"warning": "No probability function available."}; granular_confidence_all
\* is always a mapping or that marker, never None.
C6_ExplicitMarker ==
    \A r \in DOMAIN req :
        LET call == req[r]
        IN  PastGranularStage(call) =>
                /\ call.gran_conf_all # PyNone
                /\ call.pc # "RAISED"
                /\ NoProbabilityMechanism(granular_model)
                       => call.gran_conf_all = NoProbabilityMarker

\* The number of features strictly heavier than feature i.
Heavier(coefs, i) == Cardinality({ j \in DOMAIN coefs : coefs[j] > coefs[i] })

TermIndex(names, term) == CHOOSE i \in DOMAIN names : names[i] = term

\* The entries are features of the vocabulary with their rounded weights,
\* each listed once, in descending order of weight.
RankedEntries(entries, names, coefs) ==
    /\ \A p \in DOMAIN entries :
          /\ entries[p][1] \in Range(names)
          /\ entries[p][2] = Round4(coefs[TermIndex(names, entries[p][1])])
    /\ \A p, q \in DOMAIN entries :
          p < q => /\ entries[p][1] # entries[q][1]
                   /\ coefs[TermIndex(names, entries[p][1])]
                          >= coefs[TermIndex(names, entries[q][1])]

Attributed(call) ==
    /\ call.pc \in { "ATTRIBUTED", "TERMINATED_FINAL" }
    /\ granular_model.has_coef_

\* C7: with coef_, top_features_input and top_features_overall have at most
\* 10 entries; top_features_overall is the first 10 of the descending ranking
\* of the predicted class's coefficients; every term of top_features_input is
\* an input token within the 200 heaviest features, in ranked order.
C7_AttributionBound ==
    \A r \in DOMAIN req :
        LET call == req[r]
            names == granular_vectorizer.vocabulary_
            coefs == granular_model.coef_[IndexOf(granular_model.classes_, call.gran_label)]
            input == call.top_input_features.list
            overall == call.top_global_features.list
        IN  Attributed(call) =>
                /\ Len(input) <= TopCount
                /\ Len(overall) <= TopCount
                /\ Len(overall) = IF Len(names) < TopCount THEN Len(names) ELSE TopCount
                /\ RankedEntries(overall, names, coefs)
                /\ \A i \in DOMAIN names :
                      names[i] \notin { overall[p][1] : p \in DOMAIN overall }
                          => \A p \in DOMAIN overall :
                                 coefs[i] <= coefs[TermIndex(names, overall[p][1])]
                /\ RankedEntries(input, names, coefs)
                /\ \A p \in DOMAIN input :
                      /\ input[p][1] \in SplitSet(call.text_clean)
                      /\ Heavier(coefs, TermIndex(names, input[p][1])) < SearchDepth
                /\ call.pc = "TERMINATED_FINAL" =>
                      /\ call.result.top_features_input = call.top_input_features
                      /\ call.result.top_features_overall = call.top_global_features

\* A call returned 10 input features although more input tokens are in the
\* vocabulary, one of them outside the 200 heaviest features.
C7_Witness ==
    \E r \in DOMAIN req :
        /\ req[r].pc = "TERMINATED_FINAL"
        /\ granular_model.has_coef_
        /\ Len(req[r].result.top_features_input.list) = TopCount
        /\ Len(req[r].result.top_features_overall.list) = TopCount
        /\ LET names == granular_vectorizer.vocabulary_
               coefs == granular_model.coef_[IndexOf(granular_model.classes_, req[r].gran_label)]
           IN  \E i \in DOMAIN names :
                   /\ names[i] \in SplitSet(req[r].text_clean)
                   /\ Heavier(coefs, i) >= SearchDepth

RECURSIVE SumOver(_, _)
SumOver(f, keys) ==
    IF keys = {} THEN 0
    ELSE LET key == CHOOSE k \in keys : TRUE
         IN  f[key] + SumOver(f, keys \ { key })

HasMapping(call) == call.gran_conf_all # Unset /\ "dict" \in DOMAIN call.gran_conf_all

\* C8 as stated: every value of a per-class mapping is in [0, 100] and the
\* rounded values sum to within 0.1 of 100, for any number of classes.
C8_DistributionAnyK ==
    \A r \in DOMAIN req :
        LET mapping == req[r].gran_conf_all.dict
            total == SumOver(mapping, DOMAIN mapping)
        IN  HasMapping(req[r]) =>
                /\ \A key \in DOMAIN mapping : mapping[key] >= 0 /\ mapping[key] <= 10000
                /\ total >= 10000 - 10
                /\ total <= 10000 + 10

\* C8 amended: every value of a per-class mapping is in [0, 100] and the
\* rounded values sum to within 0.005 * K of 100 for K classes, hence to
\* within 0.1 of 100 for a model of at most 20 classes.
C8_DistributionBoundedK ==
    \A r \in DOMAIN req :
        LET mapping == req[r].gran_conf_all.dict
            total == SumOver(mapping, DOMAIN mapping)
            K == Len(granular_model.classes_)
        IN  HasMapping(req[r]) =>
                /\ Cardinality(DOMAIN mapping) = K
                /\ \A key \in DOMAIN mapping : mapping[key] >= 0 /\ mapping[key] <= 10000
                /\ 2 * Abs(total - 10000) <= K
                /\ K <= 20 => Abs(total - 10000) <= 10

\* A mapping of at most 20 classes whose rounded values do not sum to 100.
C8_Witness ==
    \E r \in DOMAIN req :
        /\ HasMapping(req[r])
        /\ Len(granular_model.classes_) <= 20
        /\ Len(granular_model.classes_) >= 7
        /\ SumOver(req[r].gran_conf_all.dict, DOMAIN req[r].gran_conf_all.dict) # 10000

Terminated(call) ==
    call.pc \in { "REJECTED", "TERMINATED_TRUE", "TERMINATED_FINAL", "RAISED" }

\* C9: no step of a call changes binary_model, binary_vectorizer,
\* granular_model or granular_vectorizer; every call, whatever runs beside it,
\* ends as it does when run alone; calls with the same text end alike.
C9_Stateless ==
    /\ [][globals' = globals]_vars
    /\ [](\A r \in DOMAIN req :
             Terminated(req[r]) =>
                 req[r] = layered_predict(req[r].text, binary_model, binary_vectorizer,
                                          granular_model, granular_vectorizer))
    /\ [](\A r1, r2 \in DOMAIN req :
             /\ Terminated(req[r1])
             /\ Terminated(req[r2])
             /\ req[r1].text = req[r2].text
             => req[r1].result = req[r2].result)

\* Two calls with the same text have both returned the full result.
C9_Witness ==
    \E r1, r2 \in DOMAIN req :
        /\ r1 # r2
        /\ req[r1].text = req[r2].text
        /\ req[r1].pc = "TERMINATED_FINAL"
        /\ req[r2].pc = "TERMINATED_FINAL"

====
